---- MODULE Spec2Model ----
(***************************************************************************)
(* Completion staging core of cursortab (package text, staging.go):        *)
(* ClusterChanges, ShouldSplitCompletion, CreateStagesFromClusters,        *)
(* clusterDistanceFromCursor and createCompletionFromCluster.              *)
(*                                                                         *)
(* The functions are pure; each is an operator computed the way the Go     *)
(* code computes it, and one action per exported function applies it to    *)
(* inputs drawn from bounded sets.  A Go run-time panic (index out of      *)
(* range) is an explicit outcome of the operators.                         *)
(***************************************************************************)
EXTENDS Integers, Sequences, FiniteSets, TLC

\* ------------------------------------------------------------------ bounds

\* diff keys (line numbers of the changes map) range over -1..MaxKey
MaxKey == 4
\* at most MaxChanges entries in diff.Changes
MaxChanges == 3
\* a group-typed change at key k ends at k+1 .. k+MaxSpan
MaxSpan == 1
\* proximity thresholds 0..MaxThreshold
MaxThreshold == 2
\* baseLineOffset ranges over 1..MaxBase
MaxBase == 2
\* hand-built cluster lists: at most MaxClusters clusters within lines 1..MaxLine
MaxClusters == 3
MaxLine == 3
\* diffed texts: old and new of at most MaxLen lines each
MaxLen == 3

VARIABLES
    pc,             \* which call has returned last
    diff,           \* DiffResult.Changes: map[int]LineDiff
    threshold,      \* the threshold argument of the last clustering call
    split,          \* <<>> or <<b>>: the result of ShouldSplitCompletion
    clusters,       \* []*ChangeCluster: result of ClusterChanges / input of staging
    originalLines,  \* CreateStagesFromClusters argument
    newLines,       \* CreateStagesFromClusters argument
    cursorRow,      \* CreateStagesFromClusters argument
    filePath,       \* CreateStagesFromClusters argument
    baseLineOffset, \* CreateStagesFromClusters argument
    stages,         \* []*types.CompletionStage: result of CreateStagesFromClusters
    providerType,   \* NewProvider argument
    config,         \* NewProvider argument
    provider,       \* <<>> (nil) or <<p>>: the engine.Provider NewProvider returned
    err             \* <<>> (nil) or <<message>>: the error NewProvider returned

providerVars == <<providerType, config, provider, err>>

vars == <<pc, diff, threshold, split, clusters, originalLines, newLines,
          cursorRow, filePath, baseLineOffset, stages, providerVars>>

\* No call of NewProvider has been made.
NoProvider ==
    /\ providerType = ""
    /\ config = <<>>
    /\ provider = <<>>
    /\ err = <<>>

\* ------------------------------------------------------------- data model

LineModification == "LineModification"
LineModificationGroup == "LineModificationGroup"
LineAdditionGroup == "LineAdditionGroup"
LineAddition == "LineAddition"
LineDeletion == "LineDeletion"

\* A LineDiff value; fields a literal leaves out hold Go's zero value.
LineDiff(type, lineNumber, startLine, endLine) ==
    [Type |-> type, LineNumber |-> lineNumber,
     StartLine |-> startLine, EndLine |-> endLine]

\* The ChangeCluster struct.
ChangeCluster(startLine, endLine, changes) ==
    [StartLine |-> startLine, EndLine |-> endLine, Changes |-> changes]

\* An empty map[int]LineDiff.
EmptyChanges == [k \in {} |-> LineDiff(LineModification, 0, 0, 0)]

\* m[k] = v on a map.
MapPut(m, k, v) == [x \in (DOMAIN m) \cup {k} |-> IF x = k THEN v ELSE m[x]]

\* ---------------------------------------------------------- ClusterChanges

\* sort.Ints over the collected keys: the keys in ascending order.
RECURSIVE SortInts(_)
SortInts(S) ==
    IF S = {} THEN <<>>
    ELSE LET m == CHOOSE x \in S : \A y \in S : x <= y
         IN  <<m>> \o SortInts(S \ {m})

\* "Get the actual end line for group types"
ChangeEndLineMutNoGroup(change, lineNum) == lineNum
ChangeEndLine(change, lineNum) ==
    IF change.Type = LineModificationGroup \/ change.Type = LineAdditionGroup
    THEN change.EndLine
    ELSE lineNum

\* "Check if this change is within threshold of the current cluster"
WithinThresholdMutStrict(lineNum, clusterEndLine, t) == lineNum - clusterEndLine < t
WithinThresholdMutInverted(lineNum, clusterEndLine, t) == lineNum - clusterEndLine >= t
WithinThreshold(lineNum, clusterEndLine, t) == lineNum - clusterEndLine <= t

\* "if endLine > currentCluster.EndLine { currentCluster.EndLine = endLine }"
ExtendEndLineMutKeep(clusterEndLine, endLine) == clusterEndLine
ExtendEndLine(clusterEndLine, endLine) ==
    IF endLine > clusterEndLine THEN endLine ELSE clusterEndLine

\* The body of the loop over lineNumbers.  st = [clusters, current], where
\* current is <<>> for a nil currentCluster and <<c>> otherwise.
ClusterStep(st, lineNum, changes, t) ==
    LET change == changes[lineNum]
        endLine == ChangeEndLine(change, lineNum)
        fresh == ChangeCluster(lineNum, endLine, MapPut(EmptyChanges, lineNum, change))
    IN  IF st.current = <<>>
        THEN [clusters |-> st.clusters, current |-> <<fresh>>]
        ELSE LET cur == st.current[1]
             IN  IF WithinThreshold(lineNum, cur.EndLine, t)
                 THEN [clusters |-> st.clusters,
                       current |-> <<ChangeCluster(
                           cur.StartLine,
                           ExtendEndLine(cur.EndLine, endLine),
                           MapPut(cur.Changes, lineNum, change))>>]
                 ELSE [clusters |-> Append(st.clusters, cur), current |-> <<fresh>>]

RECURSIVE ClusterLoop(_, _, _, _, _)
ClusterLoop(st, lineNumbers, i, changes, t) ==
    IF i > Len(lineNumbers) THEN st
    ELSE ClusterLoop(ClusterStep(st, lineNumbers[i], changes, t),
                     lineNumbers, i + 1, changes, t)

\* ClusterChanges(diff, threshold); nil and the empty slice are both <<>>.
ClusterChangesMutDropLast(changes, t) ==
    IF Cardinality(DOMAIN changes) = 0 THEN <<>>
    ELSE ClusterLoop([clusters |-> <<>>, current |-> <<>>],
                     SortInts(DOMAIN changes), 1, changes, t).clusters
ClusterChanges(changes, t) ==
    IF Cardinality(DOMAIN changes) = 0 THEN <<>>
    ELSE LET st == ClusterLoop([clusters |-> <<>>, current |-> <<>>],
                               SortInts(DOMAIN changes), 1, changes, t)
         IN  IF st.current # <<>> THEN Append(st.clusters, st.current[1])
             ELSE st.clusters

\* ShouldSplitCompletion(diff, threshold)
ShouldSplitCompletionMutAtLeastOne(changes, t) == Len(ClusterChanges(changes, t)) >= 1
ShouldSplitCompletion(changes, t) == Len(ClusterChanges(changes, t)) > 1

\* ------------------------------------------------ CreateStagesFromClusters

\* clusterDistanceFromCursor(cluster, cursorRow, baseLineOffset)
clusterDistanceFromCursorMutSigned(cluster, row, base) ==
    LET bufferStartLine == cluster.StartLine + base - 1
        bufferEndLine == cluster.EndLine + base - 1
    IN  IF row >= bufferStartLine /\ row <= bufferEndLine THEN 0
        ELSE bufferStartLine - row
clusterDistanceFromCursor(cluster, row, base) ==
    LET bufferStartLine == cluster.StartLine + base - 1
        bufferEndLine == cluster.EndLine + base - 1
    IN  IF row >= bufferStartLine /\ row <= bufferEndLine THEN 0
        ELSE IF row < bufferStartLine THEN bufferStartLine - row
        ELSE row - bufferEndLine

\* The less function handed to sort.SliceStable.
ClusterLessMutStartOnly(a, b, row, base) == a.StartLine < b.StartLine
ClusterLess(a, b, row, base) ==
    LET distI == clusterDistanceFromCursor(a, row, base)
        distJ == clusterDistanceFromCursor(b, row, base)
    IN  IF distI # distJ THEN distI < distJ
        ELSE a.StartLine < b.StartLine

\* One insertion of a stable sort: c goes before the first element it is
\* less than, hence after every element it is not less than.
RECURSIVE InsertStable(_, _, _, _)
InsertStable(sorted, c, row, base) ==
    IF sorted = <<>> THEN <<c>>
    ELSE LET last == sorted[Len(sorted)]
         IN  IF ClusterLess(c, last, row, base)
             THEN Append(InsertStable(SubSeq(sorted, 1, Len(sorted) - 1), c, row, base), last)
             ELSE Append(sorted, c)

\* copy(sortedClusters, clusters); sort.SliceStable(sortedClusters, less)
RECURSIVE SliceStable(_, _, _)
SliceStable(cs, row, base) ==
    IF cs = <<>> THEN <<>>
    ELSE InsertStable(SliceStable(SubSeq(cs, 1, Len(cs) - 1), row, base),
                      cs[Len(cs)], row, base)

\* "Extract the new content for this range": the first loop of
\* createCompletionFromCluster, from i on.  newLines[i-1] with i-1 < 0 is an
\* index out of range: the run-time panics.
RECURSIVE ExtractLinesMutFromFirst(_, _, _, _)
ExtractLinesMutFromFirst(i, endLine, lines, acc) ==
    IF i <= endLine /\ i - 1 < Len(lines)
    THEN IF i - 1 < 0 THEN [panic |-> TRUE, lines |-> acc]
         ELSE ExtractLinesMutFromFirst(i + 1, endLine, lines,
                                       Append(acc, lines[Len(acc) + 1]))
    ELSE [panic |-> FALSE, lines |-> acc]

RECURSIVE ExtractLines(_, _, _, _)
ExtractLines(i, endLine, lines, acc) ==
    IF i <= endLine /\ i - 1 < Len(lines)
    THEN IF i - 1 < 0 THEN [panic |-> TRUE, lines |-> acc]
         ELSE ExtractLines(i + 1, endLine, lines, Append(acc, lines[i]))
    ELSE [panic |-> FALSE, lines |-> acc]

\* "If newLines is shorter, use empty strings": the second loop.
RECURSIVE PadLines(_, _)
PadLinesMutNoPad(acc, n) == acc
PadLines(acc, n) ==
    IF Len(acc) < n THEN PadLines(Append(acc, ""), n) ELSE acc

\* The buffer coordinate of a cluster-relative line.
ToBufferLineMutNoOffset(line, base) == line
ToBufferLine(line, base) == line + base - 1

\* createCompletionFromCluster(cluster, newLines, baseLineOffset)
createCompletionFromClusterMutEndOffByOne(cluster, lines, base) ==
    LET startLine == cluster.StartLine
        endLine == cluster.EndLine
        got == ExtractLines(startLine, endLine, lines, <<>>)
    IN  [panic |-> got.panic,
         completion |-> [StartLine |-> ToBufferLine(startLine, base),
                         EndLineInc |-> endLine + base,
                         Lines |-> PadLines(got.lines, endLine - startLine + 1)]]
createCompletionFromCluster(cluster, lines, base) ==
    LET startLine == cluster.StartLine
        endLine == cluster.EndLine
        got == ExtractLines(startLine, endLine, lines, <<>>)
    IN  [panic |-> got.panic,
         completion |-> [StartLine |-> ToBufferLine(startLine, base),
                         EndLineInc |-> ToBufferLine(endLine, base),
                         Lines |-> PadLines(got.lines, endLine - startLine + 1)]]

\* isLastStage := i == len(sortedClusters)-1   (i is 1-based here)
IsLastStageAtMutOffByOne(i, n) == i >= n - 1
IsLastStageAt(i, n) == i = n

\* The cursor target of stage i of the sorted clusters.  LineNumber is the
\* int32 of the buffer line; line numbers stay below 2^31, where the
\* conversion keeps the value.
CursorTargetLineMutOwnStart(sorted, i, isLastStage, base) ==
    ToBufferLine(sorted[i].StartLine, base)
CursorTargetLine(sorted, i, isLastStage, base) ==
    IF isLastStage THEN ToBufferLine(sorted[i].EndLine, base)
    ELSE ToBufferLine(sorted[i + 1].StartLine, base)

\* The body of the loop over sortedClusters.
StageAt(sorted, i, lines, path, base) ==
    LET isLastStage == IsLastStageAt(i, Len(sorted))
        made == createCompletionFromCluster(sorted[i], lines, base)
    IN  [panic |-> made.panic,
         stage |-> [Completion |-> made.completion,
                    CursorTarget |-> [RelativePath |-> path,
                                      LineNumber |-> CursorTargetLine(sorted, i, isLastStage, base),
                                      ShouldRetrigger |-> isLastStage],
                    IsLastStage |-> isLastStage]]

RECURSIVE StageLoop(_, _, _, _, _, _)
StageLoop(sorted, i, lines, path, base, acc) ==
    IF i > Len(sorted) THEN [panic |-> FALSE, stages |-> acc]
    ELSE LET s == StageAt(sorted, i, lines, path, base)
         IN  IF s.panic THEN [panic |-> TRUE, stages |-> <<>>]
             ELSE StageLoop(sorted, i + 1, lines, path, base, Append(acc, s.stage))

\* CreateStagesFromClusters(clusters, originalLines, newLines, cursorRow,
\* filePath, baseLineOffset): [panic, stages].
CreateStagesFromClusters(cs, origLines, lines, row, path, base) ==
    IF Len(cs) = 0 THEN [panic |-> FALSE, stages |-> <<>>]
    ELSE StageLoop(SliceStable(cs, row, base), 1, lines, path, base, <<>>)

\* "sortedClusters := make([]*ChangeCluster, len(clusters)); copy(...)": the
\* slice that is sorted, and whether its backing array is the caller's.
MakeCopyMutAlias(cs) == [array |-> "caller", elems |-> cs]
MakeCopy(cs) == [array |-> "fresh", elems |-> cs]

\* The caller's clusters slice when CreateStagesFromClusters has returned:
\* sort.SliceStable reorders the slice it is given in place.
ClustersAfterCall(cs, row, base) ==
    IF Len(cs) = 0 THEN cs
    ELSE LET sortedClusters == MakeCopy(cs)
         IN  IF sortedClusters.array = "caller"
             THEN SliceStable(sortedClusters.elems, row, base)
             ELSE cs


\* ------------------------------------------------------------------ inputs

\* Line contents: the i-th line of a text is LineText[i]; no line is "".
LineText == <<"l1", "l2", "l3", "l4", "l5", "l6", "l7", "l8", "l9", "l10", "l11", "l12">>

\* newLines of n lines.
TextOfLen(n) == SubSeq(LineText, 1, n)

\* -1 is the line number a change carries for "no such line"; 0 and -1 are
\* the keys outside the positive range.
Keys == (0 - 1)..MaxKey
Thresholds == 0..MaxThreshold
BaseLineOffsets == 1..MaxBase
\* new_lines shorter than, inside and past the clusters' ranges
NewLineCounts == {0, MaxKey \div 2, MaxKey + MaxSpan}
\* cursor rows before, inside and after the buffer range of the changes
CursorRows == {1, MaxKey \div 2 + 1, MaxKey + MaxBase}
FilePaths == {"test.go"}

\* The shapes a change at a key takes: a single-line change, or a group
\* carrying its own StartLine = key and EndLine > key.
ChangeShapes ==
    {<<LineModification, 0>>}
        \cup ({LineModificationGroup, LineAdditionGroup} \X (1..MaxSpan))

ShapedChange(k, shape) ==
    IF shape[2] = 0 THEN LineDiff(shape[1], k, 0, 0)
    ELSE LineDiff(shape[1], k, k, k + shape[2])

\* The diffs: every map of at most MaxChanges keys to a change at that key.
DiffChanges ==
    UNION {{[k \in K |-> ShapedChange(k, f[k])] : f \in [K -> ChangeShapes]} :
           K \in {S \in SUBSET Keys : Cardinality(S) <= MaxChanges}}

\* ----------------------------------------------------------------- actions

Init ==
    /\ pc = "start"
    /\ diff \in DiffChanges
    /\ threshold = 0
    /\ split = <<>>
    /\ clusters = <<>>
    /\ originalLines = <<>>
    /\ newLines = <<>>
    /\ cursorRow = 0
    /\ filePath = ""
    /\ baseLineOffset = 1
    /\ stages = <<>>
    /\ NoProvider

\* A call of ClusterChanges(diff, t).
CallClusterChanges ==
    /\ pc = "start"
    /\ \E t \in Thresholds :
        /\ threshold' = t
        /\ clusters' = ClusterChanges(diff, t)
    /\ pc' = "clustered"
    /\ UNCHANGED <<diff, split, originalLines, newLines, cursorRow, filePath,
                   baseLineOffset, stages, providerVars>>

\* A call of ShouldSplitCompletion on the diff and threshold just clustered.
CallShouldSplitCompletion ==
    /\ pc = "clustered"
    /\ split' = <<ShouldSplitCompletion(diff, threshold)>>
    /\ pc' = "split"
    /\ UNCHANGED <<diff, threshold, clusters, originalLines, newLines, cursorRow,
                   filePath, baseLineOffset, stages, providerVars>>

\* A call of CreateStagesFromClusters on the clusters at hand; it returns the
\* stages or panics.
CallCreateStagesFromClusters(rows, texts, paths) ==
    /\ pc = "clustered"
    /\ \E row \in rows, base \in BaseLineOffsets, text \in texts, path \in paths :
        LET r == CreateStagesFromClusters(clusters, originalLines, text,
                                          row, path, base)
        IN  /\ cursorRow' = row
            /\ baseLineOffset' = base
            /\ newLines' = text
            /\ filePath' = path
            /\ stages' = r.stages
            /\ clusters' = ClustersAfterCall(clusters, row, base)
            /\ pc' = IF r.panic THEN "panic" ELSE "staged"
    /\ UNCHANGED <<diff, threshold, split, originalLines, providerVars>>

StageFromDiff ==
    CallCreateStagesFromClusters(CursorRows, {TextOfLen(n) : n \in NewLineCounts}, FilePaths)

Next ==
    \/ CallClusterChanges
    \/ CallShouldSplitCompletion
    \/ StageFromDiff

Spec == Init /\ [][Next]_vars


\* ------------------------------------------------------ claims on clusters

\* The lines of the closed range [a, b].
Range(a, b) == a..b

\* The buffer range of a stage.
BufferStart(stage) == stage.Completion.StartLine
BufferEnd(stage) == stage.Completion.EndLineInc

IsGroup(change) == change.Type \in {LineModificationGroup, LineAdditionGroup}

\* C7: the clusters ClusterChanges returns are in ascending StartLine order,
\* each starts more than threshold lines past the EndLine of the one before
\* it, and so their [StartLine, EndLine] ranges are pairwise disjoint.
C7_ClustersApart ==
    pc # "start" =>
        /\ \A i \in 1..(Len(clusters) - 1) :
            /\ clusters[i].StartLine < clusters[i + 1].StartLine
            /\ clusters[i + 1].StartLine - clusters[i].EndLine > threshold
        /\ \A i, j \in 1..Len(clusters) :
            i # j => Range(clusters[i].StartLine, clusters[i].EndLine)
                        \cap Range(clusters[j].StartLine, clusters[j].EndLine) = {}

\* Two clusters, the first closed by a group-typed change that ends past its key.
C7_Witness ==
    /\ pc = "clustered"
    /\ Len(clusters) >= 2
    /\ \E k \in DOMAIN clusters[1].Changes :
        /\ IsGroup(clusters[1].Changes[k])
        /\ clusters[1].EndLine > k
        /\ clusters[1].EndLine = clusters[1].Changes[k].EndLine

\* C8: every cluster has StartLine <= EndLine and every key of its changes
\* map lies in [StartLine, EndLine].
C8_ClusterBounds ==
    pc # "start" =>
        \A i \in 1..Len(clusters) :
            /\ clusters[i].StartLine <= clusters[i].EndLine
            /\ \A k \in DOMAIN clusters[i].Changes :
                clusters[i].StartLine <= k /\ k <= clusters[i].EndLine

\* A cluster that starts at a key outside the positive range, holds several
\* changes and a group-typed one.
C8_Witness ==
    /\ pc = "clustered"
    /\ \E i \in 1..Len(clusters) :
        /\ clusters[i].StartLine <= 0
        /\ Cardinality(DOMAIN clusters[i].Changes) >= 2
        /\ \E k \in DOMAIN clusters[i].Changes : IsGroup(clusters[i].Changes[k])

\* The end line a change of the diff contributes: the key, or the explicit
\* EndLine of a group-typed change.
EndOfChange(k) == IF IsGroup(diff[k]) THEN diff[k].EndLine ELSE k

\* The largest end line among the changes with a key below k.
RunningEnd(k) ==
    LET ends == {EndOfChange(j) : j \in {x \in DOMAIN diff : x < k}}
    IN  CHOOSE m \in ends : \A e \in ends : e <= m

\* Some change lies more than threshold lines past the running end line of
\* the changes before it.
SomeGapExceeds ==
    \E k \in DOMAIN diff :
        /\ \E j \in DOMAIN diff : j < k
        /\ k - RunningEnd(k) > threshold

\* C10: ShouldSplitCompletion returns true exactly when ClusterChanges returns
\* more than one cluster, which is exactly when some change lies more than
\* threshold lines past the running end line of the changes before it; it is
\* false for an empty diff.
C10_SplitIffGap ==
    pc = "split" =>
        /\ split[1] = (Len(clusters) > 1)
        /\ split[1] = SomeGapExceeds
        /\ (DOMAIN diff = {} => split[1] = FALSE)

\* A split decided by the running end line of a group, not by the key before.
C10_Witness ==
    /\ pc = "split"
    /\ split[1] = TRUE
    /\ \E k \in DOMAIN diff : IsGroup(diff[k])
    /\ Cardinality(DOMAIN diff) >= 3

\* A diff of several changes that is not split.
C10_WitnessOneCluster ==
    /\ pc = "split"
    /\ split[1] = FALSE
    /\ Cardinality(DOMAIN diff) >= 2

\* -------------------------------------------------------- claims on stages

\* C5: every changed line, in buffer coordinates, lies in the buffer range
\* of some returned stage.
C5_Coverage ==
    pc = "staged" =>
        \A k \in DOMAIN diff :
            \E i \in 1..Len(stages) :
                /\ BufferStart(stages[i]) <= k + baseLineOffset - 1
                /\ k + baseLineOffset - 1 <= BufferEnd(stages[i])

\* Several stages at a base line offset other than 1.
C5_Witness ==
    /\ pc = "staged"
    /\ Len(stages) >= 2
    /\ baseLineOffset > 1
    /\ Cardinality(DOMAIN diff) >= 3

\* C6: the buffer ranges of two distinct stages share no line.
C6_Disjoint ==
    pc = "staged" =>
        \A i, j \in 1..Len(stages) :
            i # j => Range(BufferStart(stages[i]), BufferEnd(stages[i]))
                        \cap Range(BufferStart(stages[j]), BufferEnd(stages[j])) = {}

\* Two stages whose ranges are adjacent: threshold 0 and changes on
\* consecutive lines.
C6_Witness ==
    /\ pc = "staged"
    /\ threshold = 0
    /\ \E i, j \in 1..Len(stages) :
        BufferEnd(stages[i]) + 1 = BufferStart(stages[j])

\* C9: every stage has 1 <= buffer_start <= buffer_end and as many lines as
\* its buffer range.
C9_StageShape ==
    pc = "staged" =>
        \A i \in 1..Len(stages) :
            /\ 1 <= BufferStart(stages[i])
            /\ BufferStart(stages[i]) <= BufferEnd(stages[i])
            /\ Len(stages[i].Completion.Lines)
                 = BufferEnd(stages[i]) - BufferStart(stages[i]) + 1

\* A stage whose range runs past the end of newLines, so that it is padded.
C9_Witness ==
    /\ pc = "staged"
    /\ \E i \in 1..Len(stages) :
        /\ BufferEnd(stages[i]) - baseLineOffset + 1 > Len(newLines)
        /\ BufferStart(stages[i]) - baseLineOffset + 1 <= Len(newLines)
        /\ BufferStart(stages[i]) < BufferEnd(stages[i])


\* ------------------------------------------- staging of hand-built clusters

\* A cluster as a caller builds it by hand (TestCreateStagesFromClusters):
\* a range within 1..MaxLine, its changes keyed at both ends with the
\* zero-valued LineDiff{}.
HandBuiltCluster(s, e) ==
    ChangeCluster(s, e, [k \in {s, e} |-> LineDiff("", 0, 0, 0)])

HandBuiltClusters ==
    {HandBuiltCluster(s, e) : <<s, e>> \in {p \in (1..MaxLine) \X (1..MaxLine) : p[1] <= p[2]}}

\* Every list of 1..MaxClusters such clusters, in any order, overlapping or not.
ClusterLists == UNION {[1..n -> HandBuiltClusters] : n \in 1..MaxClusters}

ClusterCursorRows == 0..(MaxLine + MaxBase)
ClusterLineCounts == {0, MaxLine - 1, MaxLine}
ClusterFilePaths == {"test.go", "other.go"}

InitClusters ==
    /\ pc = "clustered"
    /\ diff = EmptyChanges
    /\ threshold = 0
    /\ split = <<>>
    /\ clusters \in ClusterLists
    /\ originalLines = <<>>
    /\ newLines = <<>>
    /\ cursorRow = 0
    /\ filePath = ""
    /\ baseLineOffset = 1
    /\ stages = <<>>
    /\ NoProvider

StageFromClusters ==
    CallCreateStagesFromClusters(ClusterCursorRows,
                                 {TextOfLen(n) : n \in ClusterLineCounts}, ClusterFilePaths)

NextClusters == StageFromClusters

SpecClusters == InitClusters /\ [][NextClusters]_vars

\* The distance of a stage's buffer range from the cursor row: that of the
\* nearest line of the range.
StageDistance(stage) ==
    LET ds == {IF l >= cursorRow THEN l - cursorRow ELSE cursorRow - l :
               l \in Range(BufferStart(stage), BufferEnd(stage))}
    IN  CHOOSE d \in ds : \A x \in ds : d <= x

\* C1: the returned stages ascend in (distance from the cursor row,
\* buffer_start): each consecutive pair is in that order.
C1_SortedByDistance ==
    pc = "staged" =>
        \A i \in 1..(Len(stages) - 1) :
            \/ StageDistance(stages[i]) < StageDistance(stages[i + 1])
            \/ /\ StageDistance(stages[i]) = StageDistance(stages[i + 1])
               /\ BufferStart(stages[i]) <= BufferStart(stages[i + 1])

\* Three stages, two of them at the same distance, returned in an order that
\* is neither the input order nor the order of the line numbers.
C1_Witness ==
    /\ pc = "staged"
    /\ Len(stages) = 3
    /\ \E i \in 1..2 : StageDistance(stages[i]) = StageDistance(stages[i + 1])
    /\ \E i \in 1..2 : BufferStart(stages[i]) > BufferStart(stages[i + 1])
    /\ \E i \in 1..3 :
        BufferStart(stages[i]) # clusters[i].StartLine + baseLineOffset - 1

\* C2: of the stages of a non-empty cluster list exactly one has IsLastStage
\* and exactly one has ShouldRetrigger, both the final stage.
C2_LastStageFlags ==
    (pc = "staged" /\ Len(clusters) > 0) =>
        /\ Cardinality({i \in 1..Len(stages) : stages[i].IsLastStage}) = 1
        /\ Cardinality({i \in 1..Len(stages) : stages[i].CursorTarget.ShouldRetrigger}) = 1
        /\ stages[Len(stages)].IsLastStage
        /\ stages[Len(stages)].CursorTarget.ShouldRetrigger
        /\ \A i \in 1..(Len(stages) - 1) :
            ~stages[i].IsLastStage /\ ~stages[i].CursorTarget.ShouldRetrigger

\* Three stages returned.
C2_Witness ==
    /\ pc = "staged"
    /\ Len(stages) = 3
    /\ stages[3].IsLastStage

\* C3: a stage that is not last targets the buffer_start of the stage after
\* it, the last stage targets its own buffer_end, and every target carries
\* the file path argument.
C3_CursorTargets ==
    (pc = "staged" /\ Len(clusters) > 0) =>
        /\ \A i \in 1..(Len(stages) - 1) :
            stages[i].CursorTarget.LineNumber = BufferStart(stages[i + 1])
        /\ stages[Len(stages)].CursorTarget.LineNumber = BufferEnd(stages[Len(stages)])
        /\ \A i \in 1..Len(stages) : stages[i].CursorTarget.RelativePath = filePath

\* Three stages at an offset, the middle one targeting a line above itself,
\* the last one spanning several lines.
C3_Witness ==
    /\ pc = "staged"
    /\ Len(stages) = 3
    /\ baseLineOffset > 1
    /\ stages[2].CursorTarget.LineNumber < BufferStart(stages[2])
    /\ BufferStart(stages[3]) < BufferEnd(stages[3])


\* ------------------------------------------------- staging of a text diff
\* The diff engine (Line Aligner and Change Classifier) is not part of
\* staging.go; it is modelled from its contract.

Alphabet == {"a", "b", "c"}
Texts == UNION {[1..n -> Alphabet] : n \in 0..MaxLen}

\* Length of a longest common subsequence of old[i..] and new[j..].
RECURSIVE LcsLen(_, _, _, _)
LcsLen(old, new, i, j) ==
    IF i > Len(old) \/ j > Len(new) THEN 0
    ELSE IF old[i] = new[j] THEN 1 + LcsLen(old, new, i + 1, j + 1)
    ELSE LET a == LcsLen(old, new, i + 1, j)
             b == LcsLen(old, new, i, j + 1)
         IN  IF a >= b THEN a ELSE b

\* The matched pairs <<old index, new index>> of the chosen alignment, from
\* (i, j) on, in ascending order.
RECURSIVE MatchedPairs(_, _, _, _)
MatchedPairs(old, new, i, j) ==
    IF i > Len(old) \/ j > Len(new) THEN <<>>
    ELSE IF old[i] = new[j] THEN <<<<i, j>>>> \o MatchedPairs(old, new, i + 1, j + 1)
    ELSE IF LcsLen(old, new, i + 1, j) >= LcsLen(old, new, i, j + 1)
         THEN MatchedPairs(old, new, i + 1, j)
         ELSE MatchedPairs(old, new, i, j + 1)

\* A change record of the classifier: a LineDiff that also carries the
\* old-side line number (the anchor of an addition).
TextChange(type, newLineNum, oldLineNum) ==
    [Type |-> type, LineNumber |-> newLineNum, StartLine |-> 0, EndLine |-> 0,
     OldLineNum |-> oldLineNum]

\* The changes of the block between two consecutive anchors a and b of the
\* alignment: dOld unmatched old lines replaced by dNew unmatched new lines.
\* Each is a pair <<key, change>>; a deletion is keyed at minus its old line.
BlockChanges(a, b) ==
    LET dOld == b[1] - a[1] - 1
        dNew == b[2] - a[2] - 1
        m == IF dOld <= dNew THEN dOld ELSE dNew
        anchor == a[1] + dOld
    IN  {<<a[2] + n, TextChange(LineModification, a[2] + n, a[1] + n)>> : n \in 1..m}
        \cup {<<a[2] + n, TextChange(LineAddition, a[2] + n, anchor)>> : n \in (m + 1)..dNew}
        \cup {<<0 - (a[1] + n), TextChange(LineDeletion, 0 - 1, a[1] + n)>> : n \in (m + 1)..dOld}

\* ComputeDiff(old, new).Changes
ComputeDiff(old, new) ==
    LET anchors == <<<<0, 0>>>> \o MatchedPairs(old, new, 1, 1)
                       \o <<<<Len(old) + 1, Len(new) + 1>>>>
        entries == UNION {BlockChanges(anchors[x], anchors[x + 1]) :
                          x \in 1..(Len(anchors) - 1)}
    IN  [k \in {e[1] : e \in entries} |-> (CHOOSE e \in entries : e[1] = k)[2]]

InitTexts ==
    /\ pc = "start"
    /\ originalLines \in Texts
    /\ newLines \in Texts
    /\ diff = ComputeDiff(originalLines, newLines)
    /\ threshold = 0
    /\ split = <<>>
    /\ clusters = <<>>
    /\ cursorRow = 0
    /\ filePath = ""
    /\ baseLineOffset = 1
    /\ stages = <<>>
    /\ NoProvider

\* CreateStagesFromClusters on the clusters of the diff, with the diffed texts.
StageFromTexts == CallCreateStagesFromClusters(CursorRows, {newLines}, FilePaths)

NextTexts ==
    \/ CallClusterChanges
    \/ StageFromTexts

SpecTexts == InitTexts /\ [][NextTexts]_vars

\* The first n lines of a buffer, and its lines from k on.
Prefix(buf, n) == SubSeq(buf, 1, IF n < Len(buf) THEN n ELSE Len(buf))
Suffix(buf, k) == IF k > Len(buf) THEN <<>> ELSE SubSeq(buf, k, Len(buf))

\* A stage is a pure insertion when every change of its cluster is an addition.
PureInsertion(stage) ==
    \E i \in 1..Len(clusters) :
        /\ clusters[i].StartLine + baseLineOffset - 1 = BufferStart(stage)
        /\ \A k \in DOMAIN clusters[i].Changes :
            clusters[i].Changes[k].Type = LineAddition

\* The old lines sit at buffer lines baseLineOffset, baseLineOffset+1, ...:
\* buffer line l is line l - baseLineOffset + 1 of buf.  Applying a stage
\* replaces [buffer_start..buffer_end] by its lines, or inserts them at
\* buffer_start if it is a pure insertion.
ApplyStage(buf, stage) ==
    LET s == BufferStart(stage) - baseLineOffset + 1
        e == BufferEnd(stage) - baseLineOffset + 1
    IN  IF PureInsertion(stage)
        THEN Prefix(buf, s - 1) \o stage.Completion.Lines \o Suffix(buf, s)
        ELSE Prefix(buf, s - 1) \o stage.Completion.Lines \o Suffix(buf, e + 1)

RECURSIVE ApplyStages(_, _, _)
ApplyStages(buf, sts, i) ==
    IF i > Len(sts) THEN buf
    ELSE ApplyStages(ApplyStage(buf, sts[i]), sts, i + 1)

\* C4: applying all stages of the diff of originalLines against newLines, in
\* the returned order, to originalLines yields newLines.
C4_RoundTrip ==
    pc = "staged" => ApplyStages(originalLines, stages, 1) = newLines


\* ------------------------------------------------------- two runs compared

\* "for lineNum := range diff.Changes { lineNumbers = append(...) }": a map
\* is iterated in no fixed order, so the collected keys are any arrangement
\* of the key set.
IterationOrders(S) ==
    {p \in [1..Cardinality(S) -> S] : \A i, j \in 1..Cardinality(S) : i # j => p[i] # p[j]}

\* sort.Ints(lineNumbers) on the collected slice.
RECURSIVE InsertInt(_, _)
InsertInt(sorted, x) ==
    IF sorted = <<>> THEN <<x>>
    ELSE IF x < sorted[Len(sorted)]
         THEN Append(InsertInt(SubSeq(sorted, 1, Len(sorted) - 1), x), sorted[Len(sorted)])
         ELSE Append(sorted, x)

RECURSIVE SortedIntsLoop(_, _, _)
SortedIntsLoop(seq, i, acc) ==
    IF i > Len(seq) THEN acc ELSE SortedIntsLoop(seq, i + 1, InsertInt(acc, seq[i]))

SortedIntsMutNoSort(seq) == seq
SortedInts(seq) == SortedIntsLoop(seq, 1, <<>>)

\* ClusterChanges(diff, threshold) in a run whose map iteration yielded the
\* keys in the order lineNumbers.
ClusterChangesIterating(changes, t, lineNumbers) ==
    IF Cardinality(DOMAIN changes) = 0 THEN <<>>
    ELSE LET st == ClusterLoop([clusters |-> <<>>, current |-> <<>>],
                               SortedInts(lineNumbers), 1, changes, t)
         IN  IF st.current # <<>> THEN Append(st.clusters, st.current[1])
             ELSE st.clusters

\* The clusters cs handed over in the arrangement p.
Rearranged(cs, p) == [i \in 1..Len(cs) |-> cs[p[i]]]

\* The diffs of the two runs: changes keyed at lines of the new text.
InitRuns ==
    /\ Init
    /\ \A k \in DOMAIN diff : k >= 1

\* The second run of ClusterChanges on the diff and threshold of the first:
\* the map yields its keys in any order.
ClusterAgain ==
    /\ pc = "clustered"
    /\ \E order \in IterationOrders(DOMAIN diff) :
        clusters' = ClusterChangesIterating(diff, threshold, order)
    /\ pc' = "clustered again"
    /\ UNCHANGED <<diff, threshold, split, originalLines, newLines, cursorRow,
                   filePath, baseLineOffset, stages, providerVars>>

\* The first run of CreateStagesFromClusters, with a full-length newLines.
StageOnce ==
    /\ pc = "clustered again"
    /\ \E row \in CursorRows, base \in BaseLineOffsets, path \in FilePaths :
        LET text == TextOfLen(MaxKey + MaxSpan)
            r == CreateStagesFromClusters(clusters, originalLines, text, row, path, base)
        IN  /\ cursorRow' = row
            /\ baseLineOffset' = base
            /\ newLines' = text
            /\ filePath' = path
            /\ stages' = r.stages
            /\ clusters' = ClustersAfterCall(clusters, row, base)
            /\ pc' = IF r.panic THEN "panic" ELSE "staged"
    /\ UNCHANGED <<diff, threshold, split, originalLines, providerVars>>

\* The second run of CreateStagesFromClusters on the inputs of the first:
\* the clusters are handed over in any order.
StageAgain ==
    /\ pc \in {"staged", "panic"}
    /\ \E p \in IterationOrders(1..Len(clusters)) :
        LET r == CreateStagesFromClusters(Rearranged(clusters, p), originalLines,
                                          newLines, cursorRow, filePath,
                                          baseLineOffset)
        IN  /\ stages' = r.stages
            /\ pc' = IF r.panic THEN "panic again" ELSE "staged again"
    /\ UNCHANGED <<diff, threshold, split, clusters, originalLines, newLines,
                   cursorRow, filePath, baseLineOffset, providerVars>>

NextRuns ==
    \/ CallClusterChanges
    \/ ClusterAgain
    \/ StageOnce
    \/ StageAgain

SpecRuns == InitRuns /\ [][NextRuns]_vars

\* C11: a second run on the same inputs returns the clusters and the stage
\* sequence of the first, whatever order the map iteration and the cluster
\* list take.
C11_SecondRunAgrees ==
    [][/\ pc' = "clustered again" => clusters' = clusters
       /\ pc' \in {"staged again", "panic again"} =>
            /\ stages' = stages
            /\ (pc' = "panic again") = (pc = "panic")]_vars

\* A second run over three keys that returned several stages, two of them at
\* the same distance from the cursor.
C11_Witness ==
    /\ pc = "staged again"
    /\ Cardinality(DOMAIN diff) >= 3
    /\ Len(stages) >= 2
    /\ \E i, j \in 1..Len(clusters) :
        /\ i # j
        /\ clusterDistanceFromCursor(clusters[i], cursorRow, baseLineOffset)
             = clusterDistanceFromCursor(clusters[j], cursorRow, baseLineOffset)

\* ---------------------------------------------------- pure-addition stages

\* The cluster a stage was built from: createCompletionFromCluster places
\* the stage at StartLine + baseLineOffset - 1.
ClustersOfStage(stage) ==
    {i \in 1..Len(clusters) :
        ToBufferLine(clusters[i].StartLine, baseLineOffset) = stage.Completion.StartLine}

\* Every change of the cluster is an Addition.
PureAdditionCluster(cluster) ==
    \A k \in DOMAIN cluster.Changes : cluster.Changes[k].Type = LineAddition

\* The old line the first addition of the cluster is anchored at.
AnchorOf(cluster) == cluster.Changes[cluster.StartLine].OldLineNum

\* C12: the stage of a pure-addition cluster starts at its anchor's old line
\* number plus baseLineOffset and ends len(lines) - 1 lines further.
C12_PureAdditionAnchor ==
    pc = "staged" =>
        \A s \in 1..Len(stages) : \A i \in ClustersOfStage(stages[s]) :
            PureAdditionCluster(clusters[i]) =>
                /\ stages[s].Completion.StartLine = AnchorOf(clusters[i]) + baseLineOffset
                /\ stages[s].Completion.EndLineInc
                     = stages[s].Completion.StartLine + Len(stages[s].Completion.Lines) - 1


\* ---------------------------------------------------- delete+insert blocks

\* The changes of one delete+insert block: matched lines are not keys of the
\* diff, so the block of key k is the unbroken run of keys around it.
BlockOf(k) ==
    {j \in DOMAIN diff :
        \A m \in (IF j < k THEN j ELSE k)..(IF j < k THEN k ELSE j) : m \in DOMAIN diff}

\* A block that replaces D_old >= 1 old lines by D_new > D_old new lines:
\* it holds a Modification and an Addition.
GrowingBlocks ==
    {BlockOf(k) : k \in {j \in DOMAIN diff :
        /\ j >= 1
        /\ diff[j].Type = LineAddition
        /\ \E m \in BlockOf(j) : diff[m].Type = LineModification}}

\* C13: the additions of a growing block share one anchor, and the whole
\* block lies in one cluster whose stage holds all its D_new lines.
C13_BlockInOneStage ==
    pc = "staged" =>
        \A B \in GrowingBlocks :
            /\ \A j, m \in B :
                (diff[j].Type = LineAddition /\ diff[m].Type = LineAddition)
                    => diff[j].OldLineNum = diff[m].OldLineNum
            /\ \E s \in 1..Len(stages) : \E i \in ClustersOfStage(stages[s]) :
                /\ B \subseteq DOMAIN clusters[i].Changes
                /\ Len(stages[s].Completion.Lines) >= Cardinality(B)


\* ------------------------------------------------------------ render groups

\* A change at new-text line k of a stage spanning [S, E] sits at the
\* stage-local line k - S + 1.
StageLocalLineMutNoShift(k, S) == k
StageLocalLine(k, S) == k - S + 1

\* The keys that open a group: the previous line is unchanged or carries a
\* change of another kind.
GroupStarts(cluster) ==
    {k \in DOMAIN cluster.Changes :
        ~(k - 1 \in DOMAIN cluster.Changes
            /\ cluster.Changes[k - 1].Type = cluster.Changes[k].Type)}

\* The last key of the run of same-kind changes that opens at k.
GroupLast(cluster, k) ==
    CHOOSE e \in DOMAIN cluster.Changes :
        /\ e >= k
        /\ \A m \in k..e : m \in DOMAIN cluster.Changes
                           /\ cluster.Changes[m].Type = cluster.Changes[k].Type
        /\ ~(e + 1 \in DOMAIN cluster.Changes
               /\ cluster.Changes[e + 1].Type = cluster.Changes[k].Type)

\* The render groups of the stage built from the cluster.
RenderGroups(cluster) ==
    {[Type |-> cluster.Changes[k].Type,
      StartLine |-> StageLocalLine(k, cluster.StartLine),
      EndLine |-> StageLocalLine(GroupLast(cluster, k), cluster.StartLine)]
        : k \in GroupStarts(cluster)}

C14_WitnessTwoGroups ==
    /\ pc = "staged"
    /\ \E s \in 1..Len(stages) : \E i \in ClustersOfStage(stages[s]) :
        Cardinality(RenderGroups(clusters[i])) >= 2

\* ------------------------------------------------------ stage content safety

\* C15: createCompletionFromCluster returns for every cluster of the diff and
\* every length of newLines, and a line of the range that newLines does not
\* contain is the empty string.
C15_NeverOutOfRange ==
    /\ pc # "panic"
    /\ pc = "staged" =>
        \A s \in 1..Len(stages) : \A i \in ClustersOfStage(stages[s]) :
            \A k \in 1..Len(stages[s].Completion.Lines) :
                clusters[i].StartLine + k - 1 > Len(newLines)
                    => stages[s].Completion.Lines[k] = ""


\* ---------------------------------------------------------------- providers

ProviderTypeZeta == "zeta"
ProviderTypeAutoComplete == "autocomplete"
ProviderTypeSweep == "sweep"

\* The provider type values a caller can pass: the three recognised ones and
\* names no case of the switch matches.
ProviderTypes ==
    {ProviderTypeZeta, ProviderTypeAutoComplete, ProviderTypeSweep,
     "", "Zeta", "inline", "copilot"}

\* The configurations a caller can pass.
ProviderConfigs ==
    [ProximityThreshold : Thresholds, ViewportFilter : BOOLEAN, CacheCapacity : {0, 1}]

\* zeta.NewProvider, autocomplete.NewProvider, sweep.NewProvider: each
\* builds the provider of its package from the configuration.
PackageNewProvider(package, cfg) ==
    [provider |-> <<[Package |-> package, Config |-> cfg]>>, err |-> <<>>]

\* fmt.Errorf("unsupported provider type: %s", providerType)
Errorf(name) == "unsupported provider type: " \o name

NewProviderMutNoSweep(type, cfg) ==
    CASE type = ProviderTypeZeta -> PackageNewProvider("zeta", cfg)
      [] type = ProviderTypeAutoComplete -> PackageNewProvider("autocomplete", cfg)
      [] OTHER -> [provider |-> <<>>, err |-> <<Errorf(type)>>]

NewProvider(type, cfg) ==
    CASE type = ProviderTypeZeta -> PackageNewProvider("zeta", cfg)
      [] type = ProviderTypeAutoComplete -> PackageNewProvider("autocomplete", cfg)
      [] type = ProviderTypeSweep -> PackageNewProvider("sweep", cfg)
      [] OTHER -> [provider |-> <<>>, err |-> <<Errorf(type)>>]

InitProvider ==
    /\ pc = "start"
    /\ diff = EmptyChanges
    /\ threshold = 0
    /\ split = <<>>
    /\ clusters = <<>>
    /\ originalLines = <<>>
    /\ newLines = <<>>
    /\ cursorRow = 0
    /\ filePath = ""
    /\ baseLineOffset = 1
    /\ stages = <<>>
    /\ providerType \in ProviderTypes
    /\ config \in ProviderConfigs
    /\ provider = <<>>
    /\ err = <<>>

\* A call of NewProvider(providerType, config).
CallNewProvider ==
    /\ pc = "start"
    /\ LET r == NewProvider(providerType, config)
       IN  /\ provider' = r.provider
           /\ err' = r.err
    /\ pc' = "provider"
    /\ UNCHANGED <<diff, threshold, split, clusters, originalLines, newLines,
                   cursorRow, filePath, baseLineOffset, stages, providerType, config>>

NextProvider == CallNewProvider

SpecProvider == InitProvider /\ [][NextProvider]_vars

RecognisedProviderTypes == {"zeta", "autocomplete", "sweep"}

C16_WitnessUnknown ==
    /\ pc = "provider"
    /\ providerType = "copilot"
    /\ err # <<>>


\* ------------------------------------------------------- the cluster sweep

\* The largest of a non-empty set of integers.
MaxOf(S) == CHOOSE m \in S : \A e \in S : e <= m

\* The index of the cluster that holds key k.
ClusterOfKey(k) == CHOOSE i \in 1..Len(clusters) : k \in DOMAIN clusters[i].Changes

\* The key processed just before k.
KeyBefore(k) == MaxOf({j \in DOMAIN diff : j < k})

\* The EndLine the cluster i has when the sweep arrives at key k: the largest
\* end line among its changes below k.
OpenEndLine(i, k) ==
    MaxOf({EndOfChange(j) : j \in {x \in DOMAIN clusters[i].Changes : x < k}})

\* C17: the sweep takes the keys in ascending order; a change joins the open
\* cluster exactly when key - open EndLine <= threshold and otherwise opens a
\* new cluster that starts at the key; a cluster's EndLine is the largest of
\* its changes' end lines (the key, or the explicit EndLine of a group).
C17_SweepRule ==
    (pc # "start" /\ DOMAIN diff # {}) =>
        /\ clusters[1].StartLine = CHOOSE k \in DOMAIN diff : \A j \in DOMAIN diff : k <= j
        /\ \A k \in DOMAIN diff :
            (\E j \in DOMAIN diff : j < k) =>
                LET i == ClusterOfKey(KeyBefore(k))
                IN  IF k - OpenEndLine(i, k) <= threshold
                    THEN k \in DOMAIN clusters[i].Changes
                    ELSE /\ i + 1 <= Len(clusters)
                         /\ clusters[i + 1].StartLine = k
                         /\ k \in DOMAIN clusters[i + 1].Changes
        /\ \A i \in 1..Len(clusters) :
            clusters[i].EndLine
                = MaxOf({EndOfChange(k) : k \in DOMAIN clusters[i].Changes})

\* A change that joins the cluster of a group because of the group's explicit
\* EndLine (it lies more than threshold past the group's key), and a later
\* change that opens a second cluster.
C17_Witness ==
    /\ pc = "clustered"
    /\ Len(clusters) >= 2
    /\ \E g, k \in DOMAIN clusters[1].Changes :
        /\ IsGroup(diff[g])
        /\ g < k
        /\ k - g > threshold
        /\ k - diff[g].EndLine <= threshold


\* ------------------------------------------------- stage of a mixed cluster

\* The completion the cluster [start, end] is to give: its range shifted by
\* baseLineOffset - 1, and the lines of newLines at start..end, "" where
\* newLines has no such line.
ReplacementOf(cluster) ==
    [StartLine |-> cluster.StartLine + baseLineOffset - 1,
     EndLineInc |-> cluster.EndLine + baseLineOffset - 1,
     Lines |-> [k \in 1..(cluster.EndLine - cluster.StartLine + 1) |->
                  IF cluster.StartLine + k - 1 <= Len(newLines)
                  THEN newLines[cluster.StartLine + k - 1]
                  ELSE ""]]

\* C18: the stages are the replacements of the clusters: for the cluster
\* [start, end] the stage has buffer_start = start + base - 1, buffer_end =
\* end + base - 1 and end - start + 1 lines, the k-th being
\* newLines[start + k - 1] if that line exists and "" otherwise.
C18_ReplacementStage ==
    pc = "staged" =>
        /\ Len(stages) = Len(clusters)
        /\ \A i \in 1..Len(clusters) :
            \E s \in 1..Len(stages) : stages[s].Completion = ReplacementOf(clusters[i])
        /\ \A s \in 1..Len(stages) :
            \E i \in 1..Len(clusters) : stages[s].Completion = ReplacementOf(clusters[i])

\* A stage of a cluster that starts past line 1 and takes its first line from
\* newLines and its last from the padding.
C18_Witness ==
    /\ pc = "staged"
    /\ baseLineOffset >= 2
    /\ \E i \in 1..Len(clusters) :
        /\ clusters[i].StartLine >= 2
        /\ clusters[i].StartLine <= Len(newLines)
        /\ clusters[i].EndLine > Len(newLines)


\* ------------------------------------------------------ distance from cursor

\* C19: for each cluster handed to the stage assembly, the distance from the
\* cursor is 0 exactly when the cursor row lies in the cluster's buffer range
\* [start + base - 1, end + base - 1], buffer_start - row when the cursor is
\* above the range, row - buffer_end when it is below, and never negative.
C19_DistanceFromCursor ==
    pc = "staged" =>
        \A i \in 1..Len(clusters) :
            LET d == clusterDistanceFromCursor(clusters[i], cursorRow, baseLineOffset)
                bufferStart == clusters[i].StartLine + baseLineOffset - 1
                bufferEnd == clusters[i].EndLine + baseLineOffset - 1
            IN  /\ (d = 0) = (cursorRow \in Range(bufferStart, bufferEnd))
                /\ cursorRow < bufferStart => d = bufferStart - cursorRow
                /\ cursorRow > bufferEnd => d = cursorRow - bufferEnd
                /\ d >= 0
                /\ \A l \in Range(bufferStart, bufferEnd) :
                    d <= (IF l >= cursorRow THEN l - cursorRow ELSE cursorRow - l)

\* Three clusters staged with the cursor above one, inside one and below one.
C19_Witness ==
    /\ pc = "staged"
    /\ \E i, j, k \in 1..Len(clusters) :
        /\ cursorRow < clusters[i].StartLine + baseLineOffset - 1
        /\ clusterDistanceFromCursor(clusters[j], cursorRow, baseLineOffset) = 0
        /\ clusters[j].StartLine < clusters[j].EndLine
        /\ cursorRow > clusters[k].EndLine + baseLineOffset - 1


\* ------------------------------------------------ clusters partition the diff

\* The number of changes in the clusters cs[i..].
RECURSIVE ChangeCount(_, _)
ChangeCount(cs, i) ==
    IF i > Len(cs) THEN 0
    ELSE Cardinality(DOMAIN cs[i].Changes) + ChangeCount(cs, i + 1)

\* C20: the clusters partition diff.Changes: every change of the diff is in
\* exactly one cluster, under its key and unmodified; a cluster holds nothing
\* else and is not empty; the sizes add up to the number of changes.
C20_Partition ==
    pc # "start" =>
        /\ \A k \in DOMAIN diff :
            /\ \E i \in 1..Len(clusters) :
                /\ k \in DOMAIN clusters[i].Changes
                /\ clusters[i].Changes[k] = diff[k]
            /\ \A i, j \in 1..Len(clusters) :
                (k \in DOMAIN clusters[i].Changes /\ k \in DOMAIN clusters[j].Changes)
                    => i = j
        /\ \A i \in 1..Len(clusters) :
            /\ DOMAIN clusters[i].Changes # {}
            /\ DOMAIN clusters[i].Changes \subseteq DOMAIN diff
        /\ ChangeCount(clusters, 1) = Cardinality(DOMAIN diff)

\* Three changes of different shapes spread over two clusters.
C20_Witness ==
    /\ pc = "clustered"
    /\ Cardinality(DOMAIN diff) = 3
    /\ Len(clusters) = 2
    /\ \E k \in DOMAIN diff : IsGroup(diff[k])
    /\ \E i \in 1..2 : Cardinality(DOMAIN clusters[i].Changes) = 2


\* ---------------------------------------------------------- inputs are kept

\* C21: ClusterChanges leaves diff.Changes as it was, and
\* CreateStagesFromClusters leaves the caller's clusters (the same clusters,
\* in the same order, with their bounds and changes), newLines and
\* originalLines as they were.
C21_InputsUnchanged ==
    [][/\ pc' = "clustered" => diff' = diff
       /\ pc' \in {"staged", "panic"} =>
            /\ clusters' = clusters
            /\ newLines' = newLines
            /\ originalLines' = originalLines
            /\ diff' = diff]_vars

\* The stages come in another order than the clusters (the nearest cluster
\* is not the first), and the caller's clusters are still in ascending order.
C21_Witness ==
    /\ pc = "staged"
    /\ Len(clusters) >= 2
    /\ stages[1].Completion.StartLine # ToBufferLine(clusters[1].StartLine, baseLineOffset)
    /\ \A i \in 1..(Len(clusters) - 1) : clusters[i].StartLine < clusters[i + 1].StartLine
    /\ diff = ComputeDiff(originalLines, newLines)


\* ------------------------------------------------- a larger threshold

\* ClusterChanges and ShouldSplitCompletion called again on the same diff
\* with a threshold that is not smaller than the one before.
CallAtLargerThreshold ==
    /\ pc = "split"
    /\ \E t \in Thresholds :
        /\ t >= threshold
        /\ threshold' = t
        /\ clusters' = ClusterChanges(diff, t)
        /\ split' = <<ShouldSplitCompletion(diff, t)>>
    /\ pc' = "reclustered"
    /\ UNCHANGED <<diff, originalLines, newLines, cursorRow, filePath,
                   baseLineOffset, stages, providerVars>>

NextThresholds ==
    \/ CallClusterChanges
    \/ CallShouldSplitCompletion
    \/ CallAtLargerThreshold

SpecThresholds == Init /\ [][NextThresholds]_vars

\* C22: with a threshold t2 >= t1 every cluster of the t1 clustering has all
\* its changes inside one cluster of the t2 clustering, there are at most as
\* many clusters, and a split at t2 implies a split at t1.
C22_MonotoneInThreshold ==
    [][pc' = "reclustered" =>
         /\ \A i \in 1..Len(clusters) : \E j \in 1..Len(clusters') :
                DOMAIN clusters[i].Changes \subseteq DOMAIN clusters'[j].Changes
         /\ Len(clusters') <= Len(clusters)
         /\ split'[1] => split[1]]_vars

\* A second clustering that still splits and holds a cluster with two
\* neighbouring changes exactly threshold lines apart, which every smaller
\* threshold separates.
C22_Witness ==
    /\ pc = "reclustered"
    /\ threshold >= 1
    /\ split[1]
    /\ \E i \in 1..Len(clusters) : \E j, k \in DOMAIN clusters[i].Changes :
        /\ ~IsGroup(diff[j])
        /\ k - j = threshold
        /\ \A m \in DOMAIN diff : ~(j < m /\ m < k)


====
